---- MODULE Spec2Model ----
(***************************************************************************)
(* State-machine model of main.py of asteroidsboot: the per-frame game     *)
(* loop of main() (mode rules, ammunition, evasion trigger, win and loss   *)
(* transitions, collision passes) and the leaderboard store                *)
(* (load_high_scores, save_high_scores, add_score, display_game_over).     *)
(*                                                                         *)
(* Time: pygame.time.get_ticks() is an integer number of milliseconds.     *)
(* Every value the code obtains as  ticks / 1000.0  (elapsed_time,         *)
(* evasion_elapsed, time_in_zero_state, the "time" field of an entry) is   *)
(* kept here as that number of milliseconds, i.e. as seconds in fixed      *)
(* point with three decimals; the thresholds 5.0 and 300 of the code are   *)
(* therefore 5000 and 300000.  All clock reads of one loop iteration       *)
(* return the same millisecond.                                            *)
(***************************************************************************)
EXTENDS Integers, Sequences, FiniteSets, TLC

\* ------------------------------------------------------------------ bounds
MaxTicks == 3          \* loop iterations of one session
MaxAsteroids == 1      \* the asteroid field spawns only below this many
MaxShots == 2          \* live shots at any time
MaxOverlaps == 2       \* circle overlaps found in one frame
MaxAdds == 2           \* add_score calls of one leaderboard run

\* --------------------------------------------------------------- constants
None == -1                      \* Python's None for an integer-valued name
ASTEROID_MIN_RADIUS == 20       \* constants.py (imported, main.py line 7)
MsPerSecond == 1000             \* the divisor 1000.0 of the clock reads
EVASION_DELAY == 5              \* seconds, main.py line 287
EVASION_GOAL == 300             \* seconds, main.py line 303
TIME_LIMIT == 300               \* seconds, main.py line 231
TOP_N == 5                      \* main.py line 80

GameModes == {"original", "time_attack", "one_in_chamber"}
Modes == GameModes \cup {"master_of_evasion"}

\* Frame durations (ms) a session may see: a stall just under and exactly
\* at the evasion delay, and stalls reaching and passing the 300 s marks.
DtSet == {4999, 5000, 300000, 300016}
\* Clock value when the menu returns (main.py line 224).
StartTimes == {2000}

\* Variant: the threshold compared with > instead of >=.
MoreThanSeconds(ms, s) == ms > s * MsPerSecond

\* ms -> the value of  ms / 1000.0 >= s  for a threshold of s seconds
AtLeastSeconds(ms, s) == ms >= s * MsPerSecond

\* ============================================================ leaderboard
\* An entry of a mode's list (add_score, lines 55-62).  The key
\* "shots_remaining" exists only in one_in_chamber entries; None stands for
\* its absence.
Entry(score_, time_, date_, shots_) ==
    [score |-> score_, time |-> time_, date |-> date_, shots_remaining |-> shots_]

EmptyLists == [m \in Modes |-> <<>>]

\* Content of high_scores.json: no file, the legacy bare list, or the
\* per-mode object with the keys it has.
AbsentFile == [shape |-> "absent", keys |-> {}, lists |-> EmptyLists, legacy |-> <<>>]
ListFile(l) == [shape |-> "list", keys |-> {}, lists |-> EmptyLists, legacy |-> l]
DictFile(ks, ls) ==
    [shape |-> "dict", keys |-> ks,
     lists |-> [m \in Modes |-> IF m \in ks THEN ls[m] ELSE <<>>], legacy |-> <<>>]

\* What a save_high_scores that did not finish leaves behind: open(.., 'w')
\* (line 48) has emptied the file, and of the text json.dump produces
\* (line 49) nothing, or a proper part, has reached it.  Neither is JSON.
TruncatedFile == [shape |-> "empty", keys |-> {}, lists |-> EmptyLists, legacy |-> <<>>]
TornFile == [shape |-> "torn", keys |-> {}, lists |-> EmptyLists, legacy |-> <<>>]

\* json.load (line 20) raises on these; nothing in main.py catches it.
Malformed(f) == f.shape \in {"empty", "torn"}

\* save_high_scores: the file becomes the dumped dict (all keys it holds).
save_high_scores(scores) == DictFile(Modes, scores)

\* Variant: the migrated legacy list returned but not written back.
load_high_scores_unsaved(f) ==
    IF Malformed(f)
      THEN [scores |-> EmptyLists, file |-> f, raised |-> TRUE]
    ELSE IF f.shape = "absent"
      THEN [scores |-> EmptyLists, file |-> f, raised |-> FALSE]
    ELSE IF f.shape = "list"
      THEN LET migrated == [EmptyLists EXCEPT !["original"] = f.legacy]
           IN  [scores |-> migrated, file |-> f, raised |-> FALSE]
    ELSE [scores |-> [m \in Modes |-> IF m \in f.keys THEN f.lists[m] ELSE <<>>],
          file |-> f, raised |-> FALSE]

\* load_high_scores: the returned dict and the file afterwards; raised: the
\* call ended with the exception of json.load instead of returning (scores
\* is then not a value anyone receives).
load_high_scores(f) ==
    IF Malformed(f)
      THEN [scores |-> EmptyLists, file |-> f, raised |-> TRUE]
    ELSE IF f.shape = "absent"
      THEN [scores |-> EmptyLists, file |-> f, raised |-> FALSE]
    ELSE IF f.shape = "list"
      THEN LET migrated == [EmptyLists EXCEPT !["original"] = f.legacy]
           IN  [scores |-> migrated, file |-> save_high_scores(migrated),
                raised |-> FALSE]
    ELSE [scores |-> [m \in Modes |-> IF m \in f.keys THEN f.lists[m] ELSE <<>>],
          file |-> f, raised |-> FALSE]

\* Variant: time_attack sorted with the key of original.
KeyLessCopied(mode, a, b) ==
    CASE mode \in {"original", "time_attack"} ->
           \/ -a.score < -b.score
           \/ a.score = b.score /\ a.time < b.time
      [] mode = "one_in_chamber" ->
           \/ -a.score < -b.score
           \/ a.score = b.score /\ -a.shots_remaining < -b.shots_remaining
           \/ a.score = b.score /\ a.shots_remaining = b.shots_remaining
              /\ a.time < b.time
      [] OTHER -> -a.time < -b.time

\* The sort keys of add_score (lines 67-78) as a strict "sorts before".
KeyLess(mode, a, b) ==
    CASE mode = "original" ->
           \/ -a.score < -b.score
           \/ a.score = b.score /\ a.time < b.time
      [] mode = "time_attack" ->
           \/ -a.score < -b.score
           \/ a.score = b.score /\ -a.time < -b.time
      [] mode = "one_in_chamber" ->
           \/ -a.score < -b.score
           \/ a.score = b.score /\ -a.shots_remaining < -b.shots_remaining
           \/ a.score = b.score /\ a.shots_remaining = b.shots_remaining
              /\ a.time < b.time
      [] OTHER -> -a.time < -b.time

\* list.sort(key=...): a stable sort.  Insertion from the left, each element
\* placed after every element that does not sort after it.
RECURSIVE InsertStable(_, _, _)
InsertStable(mode, s, x) ==
    IF s = <<>> THEN <<x>>
    ELSE IF KeyLess(mode, x, Head(s)) THEN <<x>> \o s
    ELSE <<Head(s)>> \o InsertStable(mode, Tail(s), x)

RECURSIVE SortStable(_, _)
SortStable(mode, s) ==
    IF s = <<>> THEN <<>>
    ELSE InsertStable(mode, SortStable(mode, SubSeq(s, 1, Len(s) - 1)), s[Len(s)])

\* Variant: the slice one entry too long.
TruncateOneMore(s) == SubSeq(s, 1, IF Len(s) < TOP_N + 1 THEN Len(s) ELSE TOP_N + 1)

\* high_scores[mode][:5]
Truncate(s) == SubSeq(s, 1, IF Len(s) < TOP_N THEN Len(s) ELSE TOP_N)

\* The rank loop of add_score (lines 85-91): first index whose score, time
\* and date equal the new entry's, else None.
RankOf(s, e) ==
    LET hits == {i \in 1..Len(s) :
                   s[i].score = e.score /\ s[i].time = e.time /\ s[i].date = e.date}
    IN  IF hits = {} THEN None ELSE CHOOSE i \in hits : \A j \in hits : i <= j

\* Variant: the dict that is saved holds the list of the call's mode only.
add_score_one_list(f, mode, score_, time_, shots_, date_) ==
    LET got == load_high_scores(f)
        entry == Entry(score_, time_, date_,
                       IF mode = "one_in_chamber" THEN shots_ ELSE None)
        appended == Append(got.scores[mode], entry)
        kept == Truncate(SortStable(mode, appended))
        high_scores == [EmptyLists EXCEPT ![mode] = kept]
    IN  IF got.raised
          THEN [file |-> f, new_entry |-> Entry(0, 0, 0, None), rank |-> None,
                raised |-> TRUE]
        ELSE [file |-> save_high_scores(high_scores),
              new_entry |-> entry,
              rank |-> RankOf(kept, entry),
              raised |-> FALSE]

\* add_score(mode, score, time_elapsed, shots_remaining) at wall-clock
\* minute date_: the file afterwards, the entry built and the value returned;
\* raised: the load of line 53 raised, so nothing after it ran.
add_score(f, mode, score_, time_, shots_, date_) ==
    LET got == load_high_scores(f)
        entry == Entry(score_, time_, date_,
                       IF mode = "one_in_chamber" THEN shots_ ELSE None)
        appended == Append(got.scores[mode], entry)
        kept == Truncate(SortStable(mode, appended))
        high_scores == [got.scores EXCEPT ![mode] = kept]
    IN  IF got.raised
          THEN [file |-> f, new_entry |-> Entry(0, 0, 0, None), rank |-> None,
                raised |-> TRUE]
        ELSE [file |-> save_high_scores(high_scores),
              new_entry |-> entry,
              rank |-> RankOf(kept, entry),
              raised |-> FALSE]

\* =================================================================== state
VARIABLES
    pc,                          \* "loop" (line 248), "rules" (line 278),
                                 \* "exit" (sys.exit), "quit" (line 253),
                                 \* "error" (uncaught exception),
                                 \* "board" (leaderboard run); of a store
                                 \* run: "store", "loaded", "shown", "killed"
    game_mode,                   \* line 208
    score,                       \* line 223
    start_time,                  \* line 224
    shots_remaining,             \* line 225
    evasion_mode_activated,      \* line 226
    evasion_start_time,          \* line 227
    zero_shots_zero_score_time,  \* line 228
    now,                         \* pygame.time.get_ticks()
    elapsed_time,                \* line 276
    asteroids,                   \* the asteroids group: radii in group order
    shots,                       \* the shots group: number of live shots
    ship_hits,                   \* the frame's positions, until its checks
                                 \* are done: asteroids i the ship overlaps
    shot_hits,                   \* and pairs <<i, j>> with asteroid i
                                 \* .collides_with(shot j)
    shoot_calls,                 \* player.shoot() calls made by main (line 262)
    ticks,                       \* loop iterations completed
    outcome,                     \* which exit the session took
    report,                      \* arguments of the display_game_over call
    file,                        \* content of high_scores.json
    new_entry,                   \* add_score: the entry of the last call
    call_mode,                   \* add_score: the mode of the last call
    rank,                        \* add_score: the value it returned
    adds,                        \* add_score calls of a leaderboard run
    loaded                       \* load_high_scores called on its own: the
                                 \* dict the last call returned

vars == <<pc, game_mode, score, start_time, shots_remaining,
          evasion_mode_activated, evasion_start_time,
          zero_shots_zero_score_time, now, elapsed_time, asteroids, shots,
          ship_hits, shot_hits, shoot_calls, ticks, outcome, report, file,
          new_entry, call_mode, rank, adds, loaded>>

gameVars == <<game_mode, score, start_time, shots_remaining,
              evasion_mode_activated, evasion_start_time,
              zero_shots_zero_score_time, now, elapsed_time, asteroids, shots,
              ship_hits, shot_hits, shoot_calls, ticks, outcome, report>>

NoReport == [outcome |-> "Running", mode |-> "none", score |-> 0,
             elapsed_time |-> 0, shots_remaining |-> None,
             master_of_evasion |-> FALSE]
NoEntry == Entry(0, 0, 0, None)
NotLoaded == [called |-> FALSE, scores |-> EmptyLists]

\* Wall-clock minutes datetime.now() may format (line 58); a session ends
\* later than the entries of the file it finds.
Dates == {1, 2}
GameDates == {2}

\* A leaderboard file left by earlier sessions, every mode's list full.
FullFile ==
    DictFile(Modes,
      [m \in Modes |->
         CASE m = "original" ->
                <<Entry(300, 20000, 1, None), Entry(300, 40000, 1, None),
                  Entry(300, 40000, 2, None), Entry(100, 20000, 1, None),
                  Entry(100, 40000, 1, None)>>
           [] m = "time_attack" ->
                <<Entry(300, 300016, 1, None), Entry(300, 300000, 1, None),
                  Entry(100, 40000, 2, None), Entry(100, 40000, 1, None),
                  Entry(100, 20000, 1, None)>>
           [] m = "one_in_chamber" ->
                <<Entry(300, 20000, 1, 1), Entry(300, 20000, 1, 0),
                  Entry(100, 40000, 1, 1), Entry(100, 20000, 1, 0),
                  Entry(100, 40000, 1, 0)>>
           [] OTHER ->
                <<Entry(0, 300016, 1, None), Entry(0, 300000, 1, None),
                  Entry(0, 40000, 1, None), Entry(0, 20000, 2, None),
                  Entry(0, 20000, 1, None)>>])

\* A file of the per-mode form written before master_of_evasion existed.
PartialFile ==
    DictFile({"original", "one_in_chamber"},
      [m \in Modes |->
         CASE m = "original" -> <<Entry(300, 40000, 1, None)>>
           [] m = "one_in_chamber" ->
                <<Entry(100, 20000, 1, 0), Entry(100, 40000, 1, 0)>>
           [] OTHER -> <<>>])

\* A file of the legacy form: one list for all, ordered by score alone.
LegacyFile ==
    ListFile(<<Entry(300, 40000, 1, None), Entry(300, 20000, 1, None),
               Entry(100, 20000, 1, None)>>)

\* A legacy file that kept more than five entries.
LongLegacyFile ==
    ListFile(<<Entry(300, 20000, 1, None), Entry(300, 20000, 1, None),
               Entry(300, 40000, 1, None), Entry(100, 20000, 1, None),
               Entry(100, 40000, 1, None), Entry(100, 40000, 2, None)>>)

GameFiles == {FullFile}

\* main(), lines 203-246: the state when the loop is first entered.
Init ==
    /\ pc = "loop"
    /\ game_mode \in GameModes
    /\ score = 0
    /\ start_time \in StartTimes
    /\ shots_remaining = (IF game_mode = "one_in_chamber" THEN 1 ELSE None)
    /\ evasion_mode_activated = FALSE
    /\ evasion_start_time = None
    /\ zero_shots_zero_score_time = None
    /\ now = start_time
    /\ elapsed_time = 0
    /\ asteroids = <<>>
    /\ shots = 0
    /\ ship_hits = {}
    /\ shot_hits = {}
    /\ shoot_calls = 0
    /\ ticks = 0
    /\ outcome = "Running"
    /\ report = NoReport
    /\ file \in GameFiles
    /\ new_entry = NoEntry
    /\ call_mode = "none"
    /\ rank = None
    /\ adds = 0
    /\ loaded = NotLoaded

\* ============================================================== game loop
\* Variant: a QUIT event records the session before main returns.
QuitRecording ==
    /\ pc = "loop"
    /\ pc' = "quit"
    /\ outcome' = "Quit"
    /\ call_mode' = game_mode
    /\ adds' = adds + 1
    /\ UNCHANGED <<game_mode, score, start_time, shots_remaining,
                   evasion_mode_activated, evasion_start_time,
                   zero_shots_zero_score_time, now, elapsed_time, asteroids,
                   shots, ship_hits, shot_hits, shoot_calls, ticks, report,
                   file, new_entry, rank, loaded>>

\* Lines 251-253: a QUIT event returns from main; nothing is recorded.
Quit ==
    /\ pc = "loop"
    /\ pc' = "quit"
    /\ outcome' = "Quit"
    /\ UNCHANGED <<game_mode, score, start_time, shots_remaining,
                   evasion_mode_activated, evasion_start_time,
                   zero_shots_zero_score_time, now, elapsed_time, asteroids,
                   shots, ship_hits, shot_hits, shoot_calls, ticks, report,
                   file, new_entry, call_mode, rank, adds, loaded>>

\* Variant: the fire condition without the ammunition test.
CanFireUngated(space, can_shoot, ammo) == space /\ can_shoot

\* Line 260: the fire condition of One In The Chamber.
CanFire(space, can_shoot, ammo) == space /\ can_shoot /\ ammo > 0

\* Lines 255-276: input, the fire of One In The Chamber, the update of all
\* sprites and the clock read.  The sprite classes decide what the update
\* does: the field may spawn one large asteroid, shots may expire, in the
\* modes without ammunition the player's own update may fire, and the new
\* positions decide which circles overlap.
Update ==
    /\ pc = "loop"
    /\ ticks < MaxTicks
    /\ \E space \in BOOLEAN, can_shoot \in BOOLEAN, spawn \in BOOLEAN,
          dt \in DtSet, player_fires \in BOOLEAN :
         LET fire == /\ game_mode = "one_in_chamber"
                     /\ CanFire(space, can_shoot, shots_remaining)
             fired == IF game_mode = "one_in_chamber" THEN fire ELSE player_fires
             ammo == IF fire THEN shots_remaining - 1 ELSE shots_remaining
         IN  /\ fired => shots < MaxShots
             /\ spawn => Len(asteroids) < MaxAsteroids
             /\ game_mode = "one_in_chamber" => ~player_fires
             /\ shots_remaining' = ammo
             /\ shoot_calls' = (IF fire THEN shoot_calls + 1 ELSE shoot_calls)
             /\ asteroids' = (IF spawn
                                THEN Append(asteroids, 3 * ASTEROID_MIN_RADIUS)
                                ELSE asteroids)
             /\ \E live \in 0..(shots + (IF fired THEN 1 ELSE 0)) :
                  /\ fired => live >= 1
                  /\ shots' = live
             /\ now' = now + dt
             /\ elapsed_time' = now' - start_time
    /\ ship_hits' \in SUBSET (1..Len(asteroids'))
    /\ shot_hits' \in SUBSET ((1..Len(asteroids')) \X (1..shots'))
    /\ Cardinality(ship_hits') + Cardinality(shot_hits') <= MaxOverlaps
    /\ pc' = "rules"
    /\ UNCHANGED <<game_mode, score, start_time, evasion_mode_activated,
                   evasion_start_time, zero_shots_zero_score_time, ticks,
                   outcome, report, file, new_entry, call_mode, rank, adds,
                   loaded>>

\* Variant: the block runs in evasion mode too, and its reset branch
\* switches evasion mode off.
EvasionTriggerResetting(mode, active, ammo, sc, zero_time, start, t) ==
    IF mode = "one_in_chamber"
      THEN IF ammo = 0 /\ sc = 0
             THEN IF active
                    THEN [zero_time |-> zero_time, active |-> active, start |-> start]
                  ELSE IF zero_time = None
                    THEN [zero_time |-> t, active |-> active, start |-> start]
                  ELSE IF AtLeastSeconds(t - zero_time, EVASION_DELAY)
                    THEN [zero_time |-> zero_time, active |-> TRUE, start |-> t]
                  ELSE [zero_time |-> zero_time, active |-> active, start |-> start]
           ELSE [zero_time |-> None, active |-> FALSE, start |-> start]
    ELSE [zero_time |-> zero_time, active |-> active, start |-> start]

\* Lines 279-295: the zero-shots-zero-score timer and the activation of
\* evasion mode.  Result: the three names the block may assign.
EvasionTrigger(mode, active, ammo, sc, zero_time, start, t) ==
    IF mode = "one_in_chamber" /\ ~active
      THEN IF ammo = 0 /\ sc = 0
             THEN IF zero_time = None
                    THEN [zero_time |-> t, active |-> active, start |-> start]
                  ELSE IF AtLeastSeconds(t - zero_time, EVASION_DELAY)
                    THEN [zero_time |-> zero_time, active |-> TRUE, start |-> t]
                  ELSE [zero_time |-> zero_time, active |-> active, start |-> start]
           ELSE [zero_time |-> None, active |-> active, start |-> start]
    ELSE [zero_time |-> zero_time, active |-> active, start |-> start]

\* Lines 298-300.
EvasionElapsed(active, start, t) == IF active THEN t - start ELSE 0

\* Variant: the awards of the large and the small branch exchanged.
PointsSwapped(radius) ==
    IF radius >= ASTEROID_MIN_RADIUS * 3 THEN 300
    ELSE IF radius >= ASTEROID_MIN_RADIUS * 2 THEN 200
    ELSE 100

\* Lines 333-344: points of a hit asteroid, by radius.
Points(radius) ==
    IF radius >= ASTEROID_MIN_RADIUS * 3 THEN 100
    ELSE IF radius >= ASTEROID_MIN_RADIUS * 2 THEN 200
    ELSE 300

\* Variant: every hit gives one shot back.
ReloadOne(mode, radius) == IF mode # "one_in_chamber" THEN 0 ELSE 1

\* Lines 335-344: shots given back for a hit asteroid, by mode and radius.
Reload(mode, radius) ==
    IF mode # "one_in_chamber" THEN 0
    ELSE IF radius >= ASTEROID_MIN_RADIUS * 3 THEN 1
    ELSE IF radius >= ASTEROID_MIN_RADIUS * 2 THEN 2
    ELSE 3

\* asteroid.split() (line 347): the asteroid leaves the group; a large or
\* medium one adds two of the next smaller size, a small one nothing.
Split(radius) ==
    IF radius <= ASTEROID_MIN_RADIUS THEN <<>>
    ELSE <<radius - ASTEROID_MIN_RADIUS, radius - ASTEROID_MIN_RADIUS>>

\* Line 330-331, 349: the first shot of the group, among those still alive,
\* that asteroid i collides with (0: none).
FirstShot(i, nshots, hits, killed) ==
    LET cand == {j \in 1..nshots : j \notin killed /\ <<i, j>> \in hits}
    IN  IF cand = {} THEN 0 ELSE CHOOSE j \in cand : \A k \in cand : j <= k

\* Lines 329-349: the shot pass over the asteroids of the group as it was
\* when the loop started (fragments created by a split are not visited).
RECURSIVE ShotPassFrom(_, _, _, _, _, _)
ShotPassFrom(i, mode, asts, nshots, hits, acc) ==
    IF i > Len(asts) THEN acc
    ELSE LET j == FirstShot(i, nshots, hits, acc.killed)
         IN  IF j = 0
               THEN ShotPassFrom(i + 1, mode, asts, nshots, hits,
                      [acc EXCEPT !.kept = Append(@, asts[i])])
             ELSE ShotPassFrom(i + 1, mode, asts, nshots, hits,
                      [score |-> acc.score + Points(asts[i]),
                       ammo |-> acc.ammo + Reload(mode, asts[i]),
                       kept |-> acc.kept,
                       fragments |-> acc.fragments \o Split(asts[i]),
                       killed |-> acc.killed \cup {j}])

\* Variant: the inner loop without its break: every live shot an asteroid
\* collides with is processed against it.
RECURSIVE ShotPassNoBreakFrom(_, _, _, _, _, _, _)
ShotPassNoBreakFrom(i, j, mode, asts, nshots, hits, acc) ==
    IF i > Len(asts) THEN acc
    ELSE IF j > nshots
      THEN ShotPassNoBreakFrom(i + 1, 1, mode, asts, nshots, hits,
             IF i \in acc.split THEN acc
             ELSE [acc EXCEPT !.kept = Append(@, asts[i])])
    ELSE IF j \notin acc.killed /\ <<i, j>> \in hits
      THEN ShotPassNoBreakFrom(i, j + 1, mode, asts, nshots, hits,
             [score |-> acc.score + Points(asts[i]),
              ammo |-> acc.ammo + Reload(mode, asts[i]),
              kept |-> acc.kept,
              fragments |-> acc.fragments \o Split(asts[i]),
              killed |-> acc.killed \cup {j},
              split |-> acc.split \cup {i}])
    ELSE ShotPassNoBreakFrom(i, j + 1, mode, asts, nshots, hits, acc)

ShotPassNoBreak(mode, sc, ammo, asts, nshots, hits) ==
    ShotPassNoBreakFrom(1, 1, mode, asts, nshots, hits,
                        [score |-> sc, ammo |-> ammo, kept |-> <<>>,
                         fragments |-> <<>>, killed |-> {}, split |-> {}])

ShotPass(mode, sc, ammo, asts, nshots, hits) ==
    ShotPassFrom(1, mode, asts, nshots, hits,
                 [score |-> sc, ammo |-> ammo, kept |-> <<>>,
                  fragments |-> <<>>, killed |-> {}])

\* display_game_over (lines 151-154): add_score, then a second load.  An
\* exception of add_score leaves the function at line 153.
display_game_over(f, mode, sc, time_, shots_, date_) ==
    LET added == add_score(f, mode, sc, time_, shots_, date_)
    IN  IF added.raised THEN added
        ELSE [added EXCEPT !.file = load_high_scores(added.file).file]

\* Variant: the ship collision checked before the win conditions.
ExitTakenHitFirst(mode, active, evasion_elapsed, elapsed, hits) ==
    IF hits # {} THEN "player_hit"
    ELSE IF active /\ AtLeastSeconds(evasion_elapsed, EVASION_GOAL)
      THEN "evasion_goal"
    ELSE IF mode = "time_attack" /\ AtLeastSeconds(elapsed, TIME_LIMIT)
      THEN "time_limit"
    ELSE "none"

\* Lines 302-326: which exit, if any, this frame takes.
\* "evasion_goal" (303-305), "time_limit" (308-311), "player_hit" (314-326)
\* or "none".
ExitTaken(mode, active, evasion_elapsed, elapsed, hits) ==
    IF active /\ AtLeastSeconds(evasion_elapsed, EVASION_GOAL) THEN "evasion_goal"
    ELSE IF mode = "time_attack" /\ AtLeastSeconds(elapsed, TIME_LIMIT)
      THEN "time_limit"
    ELSE IF hits # {} THEN "player_hit"
    ELSE "none"

Report(out, mode, sc, time_, shots_, moe) ==
    [outcome |-> out, mode |-> mode, score |-> sc, elapsed_time |-> time_,
     shots_remaining |-> shots_, master_of_evasion |-> moe]

\* Variant: a ship collision reported without the One In The Chamber branch.
HitReportNoAmmo(mode, active, sc, elapsed, evasion_elapsed, ammo) ==
    IF active
      THEN Report("EvasionSurvived", "master_of_evasion", 0, evasion_elapsed,
                  None, FALSE)
    ELSE Report("PlayerDestroyed", mode, sc, elapsed, None, FALSE)

\* Variant: a win exit in a frame is reported the way line 324 reports a
\* ship collision.
WinReportAsHit(exit, mode, sc, elapsed, evasion_elapsed) ==
    IF exit = "evasion_goal"
      THEN Report("PlayerDestroyed", "one_in_chamber", sc, elapsed, None, FALSE)
    ELSE Report("PlayerDestroyed", mode, sc, elapsed, None, FALSE)

\* Lines 304 and 309-310: the display_game_over call of a win exit.
WinReport(exit, mode, sc, elapsed, evasion_elapsed) ==
    IF exit = "evasion_goal"
      THEN Report("EvasionSurvived", "master_of_evasion", 0, evasion_elapsed,
                  None, FALSE)
    ELSE Report("TimeLimitReached", mode, sc, elapsed, None, sc = 0)

\* Lines 318-324: the display_game_over call of a ship collision.
HitReport(mode, active, sc, elapsed, evasion_elapsed, ammo) ==
    IF active
      THEN Report("EvasionSurvived", "master_of_evasion", 0, evasion_elapsed,
                  None, FALSE)
    ELSE IF mode = "one_in_chamber"
      THEN Report("PlayerDestroyed", mode, sc, elapsed, ammo, FALSE)
    ELSE Report("PlayerDestroyed", mode, sc, elapsed, None, FALSE)

\* Variant: the shot pass run before the ship collision check.
FrameShotsFirst ==
    LET trig == EvasionTrigger(game_mode, evasion_mode_activated,
                               shots_remaining, score,
                               zero_shots_zero_score_time,
                               evasion_start_time, now)
        evasion_elapsed == EvasionElapsed(trig.active, trig.start, now)
        exit == ExitTaken(game_mode, trig.active, evasion_elapsed,
                          elapsed_time, ship_hits)
        pass == ShotPass(game_mode, score, shots_remaining, asteroids,
                         shots, shot_hits)
    IN  IF exit \in {"evasion_goal", "time_limit"}
          THEN [trig |-> trig, exit |-> TRUE,
                report |-> WinReport(exit, game_mode, score, elapsed_time,
                                     evasion_elapsed),
                score |-> score, ammo |-> shots_remaining,
                asteroids |-> asteroids, shots |-> shots]
        ELSE IF exit = "player_hit"
          THEN [trig |-> trig, exit |-> TRUE,
                report |-> HitReport(game_mode, trig.active, pass.score,
                                     elapsed_time, evasion_elapsed, pass.ammo),
                score |-> pass.score, ammo |-> pass.ammo,
                asteroids |-> pass.kept \o pass.fragments,
                shots |-> shots - Cardinality(pass.killed)]
        ELSE [trig |-> trig, exit |-> FALSE, report |-> NoReport,
              score |-> pass.score, ammo |-> pass.ammo,
              asteroids |-> pass.kept \o pass.fragments,
              shots |-> shots - Cardinality(pass.killed)]

\* Lines 278-349 as a function of the state at the clock read: what the
\* frame assigns, whether it exits and with which display_game_over call.
Frame ==
    LET trig == EvasionTrigger(game_mode, evasion_mode_activated,
                               shots_remaining, score,
                               zero_shots_zero_score_time,
                               evasion_start_time, now)
        evasion_elapsed == EvasionElapsed(trig.active, trig.start, now)
        exit == ExitTaken(game_mode, trig.active, evasion_elapsed,
                          elapsed_time, ship_hits)
        pass == ShotPass(game_mode, score, shots_remaining, asteroids,
                         shots, shot_hits)
    IN  IF exit \in {"evasion_goal", "time_limit"}
          THEN [trig |-> trig, exit |-> TRUE,
                report |-> WinReport(exit, game_mode, score, elapsed_time,
                                     evasion_elapsed),
                score |-> score, ammo |-> shots_remaining,
                asteroids |-> asteroids, shots |-> shots]
        ELSE IF exit = "player_hit"
          THEN [trig |-> trig, exit |-> TRUE,
                report |-> HitReport(game_mode, trig.active, score,
                                     elapsed_time, evasion_elapsed,
                                     shots_remaining),
                score |-> score, ammo |-> shots_remaining,
                asteroids |-> asteroids, shots |-> shots]
        ELSE [trig |-> trig, exit |-> FALSE, report |-> NoReport,
              score |-> pass.score, ammo |-> pass.ammo,
              asteroids |-> pass.kept \o pass.fragments,
              shots |-> shots - Cardinality(pass.killed)]

\* Lines 278-383: the rest of the frame after the clock read.  An exit is
\* one display_game_over call followed by sys.exit(); an exception raised
\* in the call ends the process before sys.exit() is reached.
Rules ==
    /\ pc = "rules"
    /\ LET f == Frame
       IN  /\ zero_shots_zero_score_time' = f.trig.zero_time
           /\ evasion_mode_activated' = f.trig.active
           /\ evasion_start_time' = f.trig.start
           /\ score' = f.score
           /\ shots_remaining' = f.ammo
           /\ asteroids' = f.asteroids
           /\ shots' = f.shots
           /\ report' = f.report
           /\ outcome' = f.report.outcome
           /\ IF f.exit
                THEN /\ \E date_ \in GameDates :
                          LET r == display_game_over(file, f.report.mode,
                                     f.report.score, f.report.elapsed_time,
                                     f.report.shots_remaining, date_)
                          IN  /\ pc' = (IF r.raised THEN "error" ELSE "exit")
                              /\ file' = r.file
                              /\ new_entry' = r.new_entry
                              /\ rank' = r.rank
                     /\ call_mode' = f.report.mode
                     /\ adds' = adds + 1
                     /\ UNCHANGED <<ticks, ship_hits, shot_hits>>
                ELSE /\ pc' = "loop"
                     /\ ticks' = ticks + 1
                     /\ ship_hits' = {}
                     /\ shot_hits' = {}
                     /\ UNCHANGED <<file, new_entry, call_mode, rank, adds>>
    /\ UNCHANGED <<game_mode, start_time, now, elapsed_time, shoot_calls,
                   loaded>>

Next == Quit \/ Update \/ Rules

\* ======================================================= leaderboard runs
\* add_score called on its own, on the files a player may have, with the
\* results sessions may report.
BoardFiles == {AbsentFile, FullFile, PartialFile, LegacyFile, LongLegacyFile}
BoardScores == {100, 300}
BoardTimes == {20000, 40000}
BoardShots == {0, 1}

InitBoard ==
    /\ pc = "board"
    /\ game_mode = "original"
    /\ score = 0
    /\ start_time = 0
    /\ shots_remaining = None
    /\ evasion_mode_activated = FALSE
    /\ evasion_start_time = None
    /\ zero_shots_zero_score_time = None
    /\ now = 0
    /\ elapsed_time = 0
    /\ asteroids = <<>>
    /\ shots = 0
    /\ ship_hits = {}
    /\ shot_hits = {}
    /\ shoot_calls = 0
    /\ ticks = 0
    /\ outcome = "Running"
    /\ report = NoReport
    /\ file \in BoardFiles
    /\ new_entry = NoEntry
    /\ call_mode = "none"
    /\ rank = None
    /\ adds = 0
    /\ loaded = NotLoaded

\* One add_score call (lines 51-91).
AddScore ==
    /\ pc = "board"
    /\ adds < MaxAdds
    /\ \E mode \in Modes, score_ \in BoardScores, time_ \in BoardTimes,
          date_ \in Dates :
         \E shots_ \in (IF mode = "one_in_chamber" THEN BoardShots ELSE {None}) :
           LET r == add_score(file, mode, score_, time_, shots_, date_)
           IN  /\ pc' = (IF r.raised THEN "error" ELSE pc)
               /\ file' = r.file
               /\ new_entry' = r.new_entry
               /\ rank' = r.rank
               /\ call_mode' = mode
    /\ adds' = adds + 1
    /\ UNCHANGED <<gameVars, loaded>>

NextBoard == AddScore

SpecBoard == InitBoard /\ [][NextBoard]_vars

\* ============================================================== store runs
\* The file as one process after another uses it: each step is one process
\* that loads it, or ends a session with display_game_over, or is killed
\* while it saves.  pc tells how the last process ended.
StorePcs == {"store", "loaded", "shown", "error", "killed"}
StoreFiles == BoardFiles \cup {TruncatedFile, TornFile}

InitStore ==
    /\ pc = "store"
    /\ game_mode = "original"
    /\ score = 0
    /\ start_time = 0
    /\ shots_remaining = None
    /\ evasion_mode_activated = FALSE
    /\ evasion_start_time = None
    /\ zero_shots_zero_score_time = None
    /\ now = 0
    /\ elapsed_time = 0
    /\ asteroids = <<>>
    /\ shots = 0
    /\ ship_hits = {}
    /\ shot_hits = {}
    /\ shoot_calls = 0
    /\ ticks = 0
    /\ outcome = "Running"
    /\ report = NoReport
    /\ file \in StoreFiles
    /\ new_entry = NoEntry
    /\ call_mode = "none"
    /\ rank = None
    /\ adds = 0
    /\ loaded = NotLoaded

\* One load_high_scores call (lines 16-44).
Load ==
    /\ pc \in StorePcs
    /\ LET r == load_high_scores(file)
       IN  IF r.raised
             THEN /\ pc' = "error"
                  /\ UNCHANGED <<file, loaded>>
           ELSE /\ pc' = "loaded"
                /\ file' = r.file
                /\ loaded' = [called |-> TRUE, scores |-> r.scores]
    /\ UNCHANGED <<gameVars, new_entry, call_mode, rank, adds>>

\* One display_game_over call (lines 151-154) with the result of a session.
GameOver ==
    /\ pc \in StorePcs
    /\ adds < MaxAdds
    /\ \E mode \in Modes, score_ \in BoardScores, time_ \in BoardTimes,
          date_ \in GameDates :
         \E shots_ \in (IF mode = "one_in_chamber" THEN BoardShots ELSE {None}) :
           LET r == display_game_over(file, mode, score_, time_, shots_, date_)
           IN  IF r.raised
                 THEN /\ pc' = "error"
                      /\ UNCHANGED <<file, new_entry, call_mode, rank, adds>>
               ELSE /\ pc' = "shown"
                    /\ file' = r.file
                    /\ new_entry' = r.new_entry
                    /\ rank' = r.rank
                    /\ call_mode' = mode
                    /\ adds' = adds + 1
    /\ UNCHANGED <<gameVars, loaded>>

\* A process killed inside save_high_scores (lines 48-49), called at line 82
\* or line 31: after open(.., 'w') and before the with block has closed the
\* file.  The loads before the save did not raise.
KilledInSave ==
    /\ pc \in StorePcs
    /\ ~load_high_scores(file).raised
    /\ pc' = "killed"
    /\ file' \in {TruncatedFile, TornFile}
    /\ UNCHANGED <<gameVars, new_entry, call_mode, rank, adds, loaded>>

NextStore == Load \/ GameOver \/ KilledInSave

SpecStore == InitStore /\ [][NextStore]_vars

Spec == Init /\ [][Next]_vars

\* ================================================================= claims
\* C1: in a One In The Chamber session shots_remaining is never negative;
\* a frame's input step either leaves ammunition and the count of
\* player.shoot() calls alone, or - only with ammunition > 0 - takes exactly
\* one shot off and makes exactly one player.shoot() call whose shot is in
\* the group; with ammunition 0 nothing is fired and nothing is taken off.
C1_AmmoGating ==
    [][game_mode = "one_in_chamber" =>
        /\ shots_remaining >= 0
        /\ shots_remaining' >= 0
        /\ (pc = "loop" /\ pc' = "rules") =>
             /\ \/ /\ shots_remaining' = shots_remaining
                   /\ shoot_calls' = shoot_calls
                   /\ shots' <= shots
                \/ /\ shots_remaining > 0
                   /\ shots_remaining' = shots_remaining - 1
                   /\ shoot_calls' = shoot_calls + 1
                   /\ shots' >= 1
             /\ shots_remaining = 0 =>
                  /\ shots_remaining' = 0
                  /\ shoot_calls' = shoot_calls
                  /\ shots' <= shots]_vars

\* C1 witness: the one shot was fired, and a later frame's input step ran
\* with ammunition 0 (the zero timer was already started by an earlier frame).
C1_Witness ==
    /\ game_mode = "one_in_chamber"
    /\ pc = "rules"
    /\ shoot_calls = 1
    /\ shots_remaining = 0
    /\ zero_shots_zero_score_time # None

\* C2: evasion mode flips on in a frame exactly when the session is One In
\* The Chamber, the frame's check sees ammunition 0 and score 0, the zero
\* timer is running and the time measured since its start is >= 5.0 s.  The
\* timer starts at the first frame that sees ammunition 0 and score 0, keeps
\* its start while every later frame sees the same, and is back to unstarted
\* after any frame that sees ammunition > 0 or score > 0 (until the flip).
C2_EvasionTrigger ==
    [][/\ (~evasion_mode_activated /\ evasion_mode_activated') <=>
            /\ pc = "rules"
            /\ game_mode = "one_in_chamber"
            /\ ~evasion_mode_activated
            /\ shots_remaining = 0
            /\ score = 0
            /\ zero_shots_zero_score_time # None
            /\ now - zero_shots_zero_score_time >= 5000
       /\ (pc = "rules" /\ game_mode = "one_in_chamber"
             /\ ~evasion_mode_activated) =>
            IF shots_remaining > 0 \/ score > 0
              THEN zero_shots_zero_score_time' = None
            ELSE IF zero_shots_zero_score_time = None
              THEN zero_shots_zero_score_time' = now
            ELSE zero_shots_zero_score_time' = zero_shots_zero_score_time
       /\ pc # "rules" =>
            zero_shots_zero_score_time' = zero_shots_zero_score_time
       /\ game_mode # "one_in_chamber" => zero_shots_zero_score_time' = None
      ]_vars

\* C2 witness: evasion mode was activated by a stretch of exactly 5.0 s.
C2_Witness ==
    /\ evasion_mode_activated
    /\ evasion_start_time - zero_shots_zero_score_time = 5000

\* C3: once evasion mode is active and 300 s or more have passed since its
\* start, the session has ended in that frame as EvasionSurvived, recorded in
\* the master_of_evasion list with score 0 and time 300.0.
C3_EvasionGoal ==
    (/\ evasion_mode_activated
     /\ now - evasion_start_time >= 300000
     /\ pc \in {"loop", "exit"}) =>
        /\ pc = "exit"
        /\ outcome = "EvasionSurvived"
        /\ call_mode = "master_of_evasion"
        /\ new_entry.score = 0
        /\ new_entry.time = 300000

\* C4: a frame that reaches the ship collision check with the ship
\* overlapping an asteroid ends the session: in evasion mode as
\* EvasionSurvived, recorded in master_of_evasion with score 0 and the time
\* since evasion started; otherwise as PlayerDestroyed, recorded under the
\* session's mode with its score and elapsed time, the entry carrying the
\* ammunition left exactly in One In The Chamber.
C4_PlayerHit ==
    [][(/\ pc = "rules"
        /\ ship_hits # {}
        /\ ~(evasion_mode_activated' /\ now - evasion_start_time' >= 300000)
        /\ ~(game_mode = "time_attack" /\ elapsed_time >= 300000)) =>
         /\ pc' = "exit"
         /\ score' = score
         /\ shots_remaining' = shots_remaining
         /\ IF evasion_mode_activated'
              THEN /\ outcome' = "EvasionSurvived"
                   /\ call_mode' = "master_of_evasion"
                   /\ new_entry'.score = 0
                   /\ new_entry'.time = now - evasion_start_time'
                   /\ new_entry'.shots_remaining = None
            ELSE /\ outcome' = "PlayerDestroyed"
                 /\ call_mode' = game_mode
                 /\ new_entry'.score = score
                 /\ new_entry'.time = now - start_time
                 /\ new_entry'.shots_remaining =
                      (IF game_mode = "one_in_chamber"
                         THEN shots_remaining ELSE None)]_vars

\* C4 witness: a One In The Chamber ship was destroyed with points scored
\* and ammunition left, and both are in the recorded entry.
C4_Witness ==
    /\ pc = "exit"
    /\ outcome = "PlayerDestroyed"
    /\ game_mode = "one_in_chamber"
    /\ ship_hits # {}
    /\ new_entry.score > 0
    /\ new_entry.shots_remaining > 0

\* C5: a Time Attack session whose elapsed time has reached 300 s is not
\* running: it ended in that frame as TimeLimitReached, recorded under
\* time_attack with its score and elapsed time, and tagged master_of_evasion
\* exactly when the score is 0.
C5_TimeLimit ==
    (/\ game_mode = "time_attack"
     /\ elapsed_time >= 300000
     /\ pc # "rules") =>
        /\ pc = "exit"
        /\ outcome = "TimeLimitReached"
        /\ call_mode = "time_attack"
        /\ report.master_of_evasion = (score = 0)
        /\ new_entry.score = score
        /\ new_entry.time = elapsed_time

\* C5 witness: the limit was reached with the ship on an asteroid and points
\* scored: the outcome is TimeLimitReached, untagged.
C5_Witness ==
    /\ pc = "exit"
    /\ game_mode = "time_attack"
    /\ outcome = "TimeLimitReached"
    /\ elapsed_time >= 300000
    /\ ship_hits # {}
    /\ score > 0
    /\ ~report.master_of_evasion

\* Sum of a sequence of numbers.
RECURSIVE SeqSum(_)
SeqSum(q) == IF q = <<>> THEN 0 ELSE Head(q) + SeqSum(Tail(q))

\* The tiers of the claims: points and reload by radius in base units.
TierPoints(radius) ==
    IF radius >= 3 * ASTEROID_MIN_RADIUS THEN 100
    ELSE IF radius >= 2 * ASTEROID_MIN_RADIUS THEN 200 ELSE 300
TierReload(radius) ==
    IF radius >= 3 * ASTEROID_MIN_RADIUS THEN 1
    ELSE IF radius >= 2 * ASTEROID_MIN_RADIUS THEN 2 ELSE 3

\* The asteroids of the group other than those with an index in H.
Survivors(asts, H) ==
    LET idx == {i \in 1..Len(asts) : i \notin H}
        nth[k \in 0..Len(asts)] ==
            IF k = 0 THEN 0
            ELSE CHOOSE i \in idx : Cardinality({x \in idx : x < i}) = k - 1
    IN  [k \in 1..Cardinality(idx) |-> asts[nth[k]]]

\* The asteroids some shot overlaps in this frame.
Overlapped == {i \in 1..Len(asteroids) : \E j \in 1..shots : <<i, j>> \in shot_hits}

\* C6: the score is a non-negative multiple of 100 and never decreases.  A
\* shot pass destroys a set H of asteroids that shots overlap; the score
\* grows by the tier points (100 / 200 / 300) of exactly the asteroids of H,
\* in One In The Chamber the ammunition grows by their tier reloads
\* (1 / 2 / 3), in the other modes ammunition is untouched; outside the
\* shot pass the score does not change.
C6_TierAwards ==
    [][/\ score >= 0 /\ score % 100 = 0
       /\ score' >= score /\ score' % 100 = 0
       /\ game_mode # "one_in_chamber" => shots_remaining' = shots_remaining
       /\ ~(pc = "rules" /\ pc' = "loop") => score' = score
       /\ (pc = "rules" /\ pc' = "loop") =>
            \E H \in SUBSET Overlapped :
              /\ Len(asteroids') >= Len(asteroids) - Cardinality(H)
              /\ SubSeq(asteroids', 1, Len(asteroids) - Cardinality(H))
                   = Survivors(asteroids, H)
              /\ score' = score + SeqSum([i \in 1..Len(asteroids) |->
                            IF i \in H THEN TierPoints(asteroids[i]) ELSE 0])
              /\ game_mode = "one_in_chamber" =>
                   shots_remaining' = shots_remaining
                     + SeqSum([i \in 1..Len(asteroids) |->
                         IF i \in H THEN TierReload(asteroids[i]) ELSE 0])
      ]_vars

\* C6 witness: a One In The Chamber session hit a large, a medium and a
\* small asteroid with three shots: 600 points, 1 + 6 - 3 shots left.
C6_Witness ==
    /\ game_mode = "one_in_chamber"
    /\ shoot_calls = 3
    /\ score = 600
    /\ shots_remaining = 4

\* C7: a frame in which the ship overlaps an asteroid and a shot overlaps an
\* asteroid ends the session in that frame without running the shot pass:
\* score, ammunition, asteroids and shots are as before the frame, and unless
\* a win condition ended the frame first, the ship hit is what is recorded,
\* with the score and ammunition from before the frame.
C7_ShipBeforeShots ==
    [][(pc = "rules" /\ ship_hits # {} /\ shot_hits # {}) =>
         /\ pc' = "exit"
         /\ score' = score
         /\ shots_remaining' = shots_remaining
         /\ asteroids' = asteroids
         /\ shots' = shots
         /\ new_entry'.score \in {0, score}
         /\ new_entry'.shots_remaining \in {None, shots_remaining}
         /\ (/\ ~(evasion_mode_activated' /\ now - evasion_start_time' >= 300000)
             /\ ~(game_mode = "time_attack" /\ elapsed_time >= 300000)) =>
              /\ outcome' = (IF evasion_mode_activated' THEN "EvasionSurvived"
                             ELSE "PlayerDestroyed")
              /\ new_entry'.score = (IF evasion_mode_activated' THEN 0 ELSE score)
      ]_vars

\* C7 witness: a session ended as PlayerDestroyed in a frame in which a shot
\* overlapped an asteroid too.
C7_Witness ==
    /\ pc = "exit"
    /\ outcome = "PlayerDestroyed"
    /\ ship_hits # {}
    /\ shot_hits # {}
    /\ asteroids # <<>>

\* C8: a shot pass hits each asteroid at most once: the asteroids destroyed
\* are a set H of overlapped asteroids, one shot is destroyed per asteroid of
\* H, the score grows by one award per asteroid of H and each asteroid of H
\* is split once (two fragments unless it is small).  In particular shots
\* beyond the first on the same asteroid stay alive unless another asteroid
\* takes them.
C8_OneHitPerAsteroid ==
    [][(pc = "rules" /\ pc' = "loop") =>
         /\ shots - shots' <= Cardinality(Overlapped)
         /\ \E H \in SUBSET Overlapped :
              /\ shots' = shots - Cardinality(H)
              /\ score' = score + SeqSum([i \in 1..Len(asteroids) |->
                            IF i \in H THEN TierPoints(asteroids[i]) ELSE 0])
              /\ Len(asteroids') = Len(asteroids) - Cardinality(H)
                   + 2 * Cardinality({i \in H :
                                        asteroids[i] > ASTEROID_MIN_RADIUS})
      ]_vars

\* C8 witness: a frame that runs the shot pass with two shots overlapping
\* the same asteroid.
C8_Witness ==
    /\ pc = "rules"
    /\ ship_hits = {}
    /\ shot_hits = {<<1, 1>>, <<1, 2>>}
    /\ ~(game_mode = "time_attack" /\ elapsed_time >= 300000)
    /\ ~evasion_mode_activated

\* The comparators of the leaderboard as the claims state them: a is
\* strictly better than b in mode's list.
Better(mode, a, b) ==
    CASE mode = "original" ->
           a.score > b.score \/ (a.score = b.score /\ a.time < b.time)
      [] mode = "time_attack" ->
           a.score > b.score \/ (a.score = b.score /\ a.time > b.time)
      [] mode = "one_in_chamber" ->
           \/ a.score > b.score
           \/ a.score = b.score /\ a.shots_remaining > b.shots_remaining
           \/ a.score = b.score /\ a.shots_remaining = b.shots_remaining
              /\ a.time < b.time
      [] OTHER -> a.time > b.time

\* How often x occurs in the sequence q.
Count(q, x) == Cardinality({i \in 1..Len(q) : q[i] = x})

\* The entries of q that are neither better nor worse than x, in order.
Ties(mode, q, x) ==
    LET tie(y) == ~Better(mode, x, y) /\ ~Better(mode, y, x)
    IN  SelectSeq(q, tie)

\* C9: after an add_score call the list of the call's mode has at most 5
\* entries: one more than before if it had fewer than 5, and exactly 5 if it
\* had 5, in which case the entries kept are those before the call plus the
\* new one, less one entry that none of the kept entries sorts after.
C9_TopFive ==
    [][adds' = adds + 1 =>
         LET m == call_mode'
             old == load_high_scores(file).scores[m]
             new == file'.lists[m]
             all == Append(old, new_entry')
         IN  /\ Len(new) <= 5
             /\ Len(new) = (IF Len(old) < 5 THEN Len(old) + 1 ELSE 5)
             /\ Len(old) = 5 =>
                  \E p \in 1..Len(all) :
                    /\ \A i \in 1..Len(all) :
                         Count(new, all[i]) =
                           Count(all, all[i]) - (IF all[i] = all[p] THEN 1 ELSE 0)
                    /\ \A i \in 1..Len(new) : ~Better(m, all[p], new[i])
      ]_vars

\* C9 witness: an entry was added to a list that was full; the list still
\* has 5 entries and the new one is not among them.
C9_Witness ==
    /\ pc = "board"
    /\ adds >= 1
    /\ Len(file.lists[call_mode]) = 5
    /\ Count(file.lists[call_mode], new_entry) = 0

\* C10: after an add_score call the list of the call's mode is ordered
\* best first by the mode's comparator, and entries that tie under the
\* comparator are in the order they had before the call, the new entry
\* after the older ones it ties with.
C10_Ordered ==
    [][adds' = adds + 1 =>
         LET m == call_mode'
             old == load_high_scores(file).scores[m]
             new == file'.lists[m]
             all == Append(old, new_entry')
         IN  /\ \A i, j \in 1..Len(new) : i < j => ~Better(m, new[j], new[i])
             /\ \A i \in 1..Len(new) :
                  LET kept == Ties(m, new, new[i])
                      had == Ties(m, all, new[i])
                  IN  /\ Len(kept) <= Len(had)
                      /\ kept = SubSeq(had, 1, Len(kept))
      ]_vars

\* C10 witness: {score 300, time 40} then {score 300, time 20} added to an
\* empty original list: the faster entry is first.
C10_Witness ==
    /\ pc = "board"
    /\ adds = 2
    /\ call_mode = "original"
    /\ new_entry.score = 300 /\ new_entry.time = 20000
    /\ rank = 1
    /\ Len(file.lists["original"]) = 2
    /\ file.lists["original"][2].score = 300
    /\ file.lists["original"][2].time = 40000

\* The position the appended entry takes in the stable sort: behind every
\* older entry that is not worse than it.
PlaceOfNew(mode, old, e) ==
    1 + Cardinality({i \in 1..Len(old) : ~Better(mode, e, old[i])})

\* C11: add_score returns the 1-based position of the entry it just inserted
\* when that entry is among the 5 kept, and None when it was dropped - also
\* when the list already holds entries with the same score, time and date.
C11_RankOfNew ==
    [][adds' = adds + 1 =>
         LET m == call_mode'
             old == load_high_scores(file).scores[m]
             p == PlaceOfNew(m, old, new_entry')
         IN  IF p <= 5
               THEN /\ file'.lists[m][p] = new_entry'
                    /\ rank' = p
             ELSE rank' = None
      ]_vars

\* C12: the file is updated all-or-nothing: whatever a process does, being
\* killed at any point inside save_high_scores included, the file afterwards
\* is what it was before or a complete per-mode structure, never an empty
\* or partly written one.
C12_AllOrNothing ==
    [][\/ file' = file
       \/ /\ file'.shape = "dict"
          /\ file'.keys = Modes
          /\ ~Malformed(file')
      ]_vars

\* C13: load_high_scores returns a dict with all four mode keys: four empty
\* lists for an absent file; for a legacy bare list that list unchanged
\* under "original", the other three empty, and the file rewritten at once
\* in the per-mode form; for a per-mode file with keys missing the lists it
\* has unchanged and empty lists for the missing modes.
C13_LoadShapes ==
    [][(pc' = "loaded" /\ ~Malformed(file)) =>
         /\ loaded'.called
         /\ DOMAIN loaded'.scores = Modes
         /\ file.shape = "absent" =>
              /\ \A m \in Modes : loaded'.scores[m] = <<>>
              /\ file' = file
         /\ file.shape = "list" =>
              /\ loaded'.scores["original"] = file.legacy
              /\ \A m \in Modes \ {"original"} : loaded'.scores[m] = <<>>
              /\ file'.shape = "dict"
              /\ file'.keys = Modes
              /\ file'.lists = loaded'.scores
         /\ file.shape = "dict" =>
              /\ \A m \in file.keys : loaded'.scores[m] = file.lists[m]
              /\ \A m \in Modes \ file.keys : loaded'.scores[m] = <<>>
              /\ file' = file
      ]_vars

\* C13 witness: a legacy list of six entries was loaded: all six are under
\* "original", in the returned dict and in the rewritten file.
C13_Witness ==
    /\ pc = "loaded"
    /\ adds = 0
    /\ loaded.called
    /\ Len(loaded.scores["original"]) = 6
    /\ file.shape = "dict"
    /\ file.lists["original"] = LongLegacyFile.legacy
    /\ file.lists["master_of_evasion"] = <<>>

\* C14: a file that exists but is malformed is treated as absent: a load
\* returns the empty four-mode dict, and the processing at the end of a
\* session completes, recording the session's entry as the only one of its
\* list.
C14_RecoverAsAbsent ==
    [][Malformed(file) =>
         /\ pc' \in {"loaded", "shown"}
         /\ pc' = "loaded" => loaded' = [called |-> TRUE, scores |-> EmptyLists]
         /\ pc' = "shown" =>
              /\ adds' = adds + 1
              /\ file'.shape = "dict"
              /\ file'.lists[call_mode'] = <<new_entry'>>
      ]_vars

\* The outcomes that end a session with a recording.
TerminalOutcomes == {"PlayerDestroyed", "TimeLimitReached", "EvasionSurvived"}

\* C15: the leaderboard is written exactly once by a session that reaches a
\* terminal outcome and never by one that is quit: a running session has
\* recorded nothing; a quit session has ended with the store and the
\* add_score results untouched; an ended session has made exactly one
\* recording under a terminal outcome; and after either end no further step
\* (no tick, no second recording) is possible - also when the ship overlaps
\* several asteroids in the ending frame.
C15_RecordedOnce ==
    /\ adds <= 1
    /\ pc \in {"loop", "rules"} =>
         /\ adds = 0
         /\ outcome = "Running"
         /\ file \in GameFiles
    /\ pc = "quit" =>
         /\ adds = 0
         /\ outcome = "Quit"
         /\ file \in GameFiles
         /\ new_entry = NoEntry /\ call_mode = "none" /\ rank = None
    /\ pc = "exit" =>
         /\ adds = 1
         /\ outcome \in TerminalOutcomes
         /\ call_mode \in Modes
    /\ outcome \in TerminalOutcomes => pc = "exit"
    /\ pc \in {"exit", "quit"} => ~ENABLED Next

\* C15 witness: a session ended with the ship on two asteroids at once, and
\* one recording was made.
C15_Witness ==
    /\ pc = "exit"
    /\ outcome = "PlayerDestroyed"
    /\ Cardinality(ship_hits) >= 2
    /\ adds = 1

\* C16: evasion mode is monotonic: once on it is on in every later state of
\* the session; and it is never on in an original or time_attack session.
C16_EvasionMonotonic ==
    [][/\ evasion_mode_activated => evasion_mode_activated'
       /\ game_mode \in {"original", "time_attack"} =>
            ~evasion_mode_activated /\ ~evasion_mode_activated'
      ]_vars

\* C16 witness: evasion mode is still on after a frame later than the one
\* that activated it, with points on the score.
C16_Witness ==
    /\ evasion_mode_activated
    /\ pc = "loop"
    /\ score > 0
    /\ evasion_start_time < now

\* C17: in every state of a One In The Chamber session with evasion mode on,
\* the score is 0 and the ammunition is 0.
C17_EvasionZero ==
    (game_mode = "one_in_chamber" /\ evasion_mode_activated) =>
        score = 0 /\ shots_remaining = 0

\* The win conditions of a frame, on the values the frame's checks read.
EvasionWin == evasion_mode_activated /\ now - evasion_start_time >= 300000
TimeAttackWin == game_mode = "time_attack" /\ elapsed_time >= 300000

\* C18: the win checks come before the ship collision check: a frame in
\* which a win condition holds and the ship overlaps an asteroid ends the
\* session with the win outcome - EvasionSurvived recorded in
\* master_of_evasion, TimeLimitReached recorded in time_attack with the
\* zero-score tag - and not as a ship collision.
C18_WinBeforeHit ==
    (pc # "rules" /\ ship_hits # {} /\ (EvasionWin \/ TimeAttackWin)) =>
        /\ pc = "exit"
        /\ outcome # "PlayerDestroyed"
        /\ EvasionWin =>
             /\ outcome = "EvasionSurvived"
             /\ call_mode = "master_of_evasion"
        /\ (~EvasionWin /\ TimeAttackWin) =>
             /\ outcome = "TimeLimitReached"
             /\ call_mode = "time_attack"
             /\ report.master_of_evasion = (score = 0)

\* C18 witness: a time_attack session with no points reached the limit with
\* the ship on an asteroid: TimeLimitReached, tagged master of evasion.
C18_Witness ==
    /\ pc = "exit"
    /\ TimeAttackWin
    /\ ship_hits # {}
    /\ score = 0
    /\ outcome = "TimeLimitReached"
    /\ report.master_of_evasion

\* C19: in a One In The Chamber session, in every state,
\* shots_remaining = 1 + score / 100 - (shots fired so far); so ammunition 0
\* and score 0 hold together only when exactly the one initial shot was
\* fired and no asteroid has been destroyed.
C19_AmmoAccounting ==
    game_mode = "one_in_chamber" =>
        /\ score % 100 = 0
        /\ shots_remaining = 1 + (score \div 100) - shoot_calls
        /\ (shots_remaining = 0 /\ score = 0) => shoot_calls = 1

\* C19 witness: two shots fired, a large and then a medium asteroid hit:
\* 300 points and 1 + 3 - 2 shots.
C19_Witness ==
    /\ game_mode = "one_in_chamber"
    /\ shoot_calls = 2
    /\ score = 300
    /\ shots_remaining = 2

\* The list the file holds for a mode: the list under the mode's key, the
\* bare list of a legacy file for "original", and nothing otherwise.
StoredList(f, k) ==
    IF f.shape = "dict" /\ k \in f.keys THEN f.lists[k]
    ELSE IF f.shape = "list" /\ k = "original" THEN f.legacy
    ELSE <<>>

\* C20: an add_score call changes only the list of its mode: the file
\* afterwards has all four keys, every other mode's list is the list the
\* file held before (empty where the key was missing), and every entry of
\* the call's list is, field for field, an entry the list held before or the
\* new entry, no entry more often than before.
C20_FrameEffect ==
    [][adds' = adds + 1 =>
         LET m == call_mode'
             new == file'.lists[m]
             all == Append(StoredList(file, m), new_entry')
         IN  /\ file'.shape = "dict"
             /\ file'.keys = Modes
             /\ \A k \in Modes \ {m} : file'.lists[k] = StoredList(file, k)
             /\ \A i \in 1..Len(new) : Count(new, new[i]) <= Count(all, new[i])
      ]_vars

\* C20 witness: one call for "original" on the file that lacks two keys:
\* the one_in_chamber list is as it was, the missing lists are empty.
C20_Witness ==
    /\ pc = "board"
    /\ adds = 1
    /\ call_mode = "original"
    /\ Len(file.lists["original"]) = 2
    /\ file.lists["one_in_chamber"] = PartialFile.lists["one_in_chamber"]
    /\ file.lists["time_attack"] = <<>>
    /\ file.keys = Modes

====
